---- MODULE Spec2Model ----
(***************************************************************************)
(* mdbook-man: conversion of a book's chapters (markdown document trees)   *)
(* into roff output nodes (src/src/lib.rs), their assembly into Roff       *)
(* documents, and the binary that writes them out (src/src/main.rs).       *)
(*                                                                         *)
(* A Rust String is modelled as what it is: a sequence of bytes that is    *)
(* valid UTF-8.  A chapter's content is identified with the document tree  *)
(* parse_document returns for it: a sequence of nodes in allocation order, *)
(* each with its NodeValue and the index of its parent (0 for the root).   *)
(***************************************************************************)
EXTENDS Integers, Sequences, FiniteSets, TLC

VARIABLES
    text,      \* markdown_to_roff's argument: the chapter being converted
    parser,    \* the Parser: [nodes, last_md_node]
    stack,     \* iter_nodes' call stack: frames [node, idx]
    pc,        \* position in markdown_to_roff / the assembler
    result,    \* what markdown_to_roff returned (parser.finalize())
    visited,   \* history: the nodes the callback was invoked on, in order
    before,    \* history: the Parser as it was when the latest callback began
    arena,     \* number of AstNodes allocated in the Arena so far
    ctx,       \* the RenderContext: [title, book]
    entry,     \* the assembler entry point that was called
    item,      \* index of the book item the assembler's loop is at
    page,      \* mdbook_to_roff's page
    pages,     \* mdbook_to_roff_chapters' pages
    fs,        \* the file system: [dirs, files], files by path [dir, name]
    stdout     \* what was printed on standard output, in order

vars == <<text, parser, stack, pc, result, visited, before, arena,
          ctx, entry, item, page, pages, fs, stdout>>

walkVars == <<text, parser, stack, pc, result, visited, before, arena>>
walkVarsButPc == <<text, parser, stack, result, visited, before, arena>>
bookVars == <<ctx, entry, item, page, pages>>
hostVars == <<fs, stdout>>

----------------------------------------------------------------------------
(* Bounds of the model *)

\* nodes below the document root in the trees of Spec, over every node value
MaxNodes == 2

\* nodes below the document root in the trees of Spec over DeepValues
MaxDeep == 4

\* book items in the books of SpecBook
MaxItems == 2

\* book items in the books of SpecMain
MaxMainItems == 3

\* nodes below the document root in the trees of SpecText over HeadValues
MaxHead == 4

\* nodes below the document root in the trees of SpecText over MidValues
MaxMid == 3

\* nodes below the document root in the trees of SpecLive
MaxLive == 3

----------------------------------------------------------------------------
(* Byte strings *)

S_Title == <<84, 105, 116, 108, 101>>                              \* "Title"
S_eacute == <<195, 169>>                                           \* "é" (U+00E9)
S_bad == <<255>>                                                   \* not UTF-8
S_x == <<120>>                                                     \* "x"
S_X == <<88>>                                                      \* "X"
S_url == <<104, 116, 116, 112, 58, 47, 47, 120>>                   \* "http://x"
S_rust == <<114, 117, 115, 116>>                                   \* "rust"
S_main == <<102, 110, 32, 109, 97, 105, 110, 40, 41, 32, 123, 125>> \* "fn main() {}"
S_A == <<65>>                                                      \* "A"
S_B == <<66>>                                                      \* "B"
S_backtick == <<96>>                                               \* "`"

\* U+FFFD REPLACEMENT CHARACTER in UTF-8
REPLACEMENT == <<239, 191, 189>>

\* the number of bytes a UTF-8 sequence led by b has (0: b leads none)
Utf8Width(b) ==
    IF b < 128 THEN 1
    ELSE IF b >= 194 /\ b <= 223 THEN 2
    ELSE IF b >= 224 /\ b <= 239 THEN 3
    ELSE IF b >= 240 /\ b <= 244 THEN 4
    ELSE 0

\* whether c may be the k-th byte (k >= 2) of a sequence led by b
Utf8Cont(b, k, c) ==
    IF k = 2 /\ b = 224 THEN c >= 160 /\ c <= 191
    ELSE IF k = 2 /\ b = 237 THEN c >= 128 /\ c <= 159
    ELSE IF k = 2 /\ b = 240 THEN c >= 144 /\ c <= 191
    ELSE IF k = 2 /\ b = 244 THEN c >= 128 /\ c <= 143
    ELSE c >= 128 /\ c <= 191

\* how many bytes at the head of v are a prefix of a well-formed sequence
RECURSIVE Utf8Good(_, _)
Utf8Good(v, k) ==
    IF k > Utf8Width(v[1]) \/ k > Len(v) THEN k - 1
    ELSE IF k = 1 \/ Utf8Cont(v[1], k, v[k]) THEN Utf8Good(v, k + 1)
    ELSE k - 1

\* String::from_utf8_lossy: well-formed sequences are kept, every maximal
\* ill-formed run is replaced by U+FFFD
from_utf8_lossy(v) ==
    LET lossy[i \in 1..(Len(v) + 1)] ==
            IF i > Len(v) THEN <<>>
            ELSE LET rest == SubSeq(v, i, Len(v))
                     w == Utf8Width(v[i])
                     g == Utf8Good(rest, 1)
                 IN  IF w > 0 /\ g = w
                     THEN SubSeq(v, i, i + w - 1) \o lossy[i + w]
                     ELSE LET skip == IF g = 0 THEN 1 ELSE g
                          IN  REPLACEMENT \o lossy[i + skip]
    IN  lossy[1]

\* str::len: the length in bytes
StrLen(s) == Len(s)

\* "=".repeat(n)
RepeatEq(n) == [k \in 1..n |-> 61]

----------------------------------------------------------------------------
(* roffman's output nodes, as the constructors the converter uses *)

RoffText(s, style) == [type |-> "text", content |-> s, style |-> style]
RoffLinebreak == [type |-> "linebreak"]
RoffParagraph(content) == [type |-> "paragraph", content |-> content]
RoffExample(content) == [type |-> "example", content |-> content]
RoffUrl(name, address) == [type |-> "url", name |-> name, address |-> address]
RoffNested(content) == [type |-> "nested", content |-> content]
RoffIndentedParagraph(content, indentation, title) ==
    [type |-> "indented_paragraph", content |-> content,
     indentation |-> indentation, title |-> title]

\* Option<T>
None == [some |-> FALSE]
Some(x) == [some |-> TRUE, value |-> x]

----------------------------------------------------------------------------
(* The parsed document: comrak's NodeValue *)

Leaf(tag) == [tag |-> tag]

\* the node kinds that carry no payload the converter reads; "Document" and
\* "Table" stand for the kinds the converter does not name
PlainTags == {"Heading", "Paragraph", "Strong", "Emph", "SoftBreak", "List",
              "Item", "LineBreak", "Table"}

TextPayloads == {S_Title, S_eacute, S_bad}

NodeValues ==
    {Leaf(t) : t \in PlainTags}
    \cup {[tag |-> "Text", text |-> s] : s \in TextPayloads}
    \cup {[tag |-> "Code", literal |-> S_x]}
    \cup {[tag |-> "CodeBlock", literal |-> S_main, info |-> i] : i \in {<<>>, S_rust}}
    \cup {[tag |-> t, url |-> S_url, title |-> ti] :
              t \in {"Link", "Image"}, ti \in {<<>>, S_X}}

\* the node values of the deeper trees
DeepValues == {Leaf("Paragraph"), Leaf("Emph"), [tag |-> "Text", text |-> S_x]}

\* the node values of the trees of SpecText: headings with text runs and
\* inlines, and list items and nested inlines
HeadValues == {Leaf("Heading"), Leaf("Paragraph"), Leaf("Emph"),
               [tag |-> "Text", text |-> S_x]}
MidValues == {Leaf("Item"), Leaf("Paragraph"), Leaf("Emph"), Leaf("Strong"),
              [tag |-> "Text", text |-> S_x]}

\* the node values of the trees of SpecLive: one for every arm of the
\* closure's match, the Text with a payload that is no UTF-8
LiveValues ==
    {Leaf("Paragraph"), Leaf("LineBreak"),
     [tag |-> "Text", text |-> S_bad],
     [tag |-> "Code", literal |-> S_x],
     [tag |-> "CodeBlock", literal |-> S_main, info |-> S_rust],
     [tag |-> "Link", url |-> S_url, title |-> S_X]}

\* a tree: node 1 is the Document root; node k + 1 has value vals[k] and
\* parent par[k]
MkTree(vals, par) ==
    [k \in 1..(Len(vals) + 1) |->
        IF k = 1 THEN [value |-> Leaf("Document"), parent |-> 0]
        ELSE [value |-> vals[k - 1], parent |-> par[k - 1]]]

\* the parents of n nodes below the root: a node's parent was allocated
\* before it
Parents(n) == {p \in [1..n -> 1..n] : \A k \in 1..n : p[k] <= k}

\* text is a tree with at most `most` nodes below the root, over the node
\* values V
IsTree(t, most, V) ==
    \E n \in 0..most :
        \E vals \in [1..n -> V], par \in Parents(n) : t = MkTree(vals, par)

\* node a is node d or one of its ancestors, for the parents p
RECURSIVE OnPath(_, _, _)
OnPath(p, a, d) == a = d \/ (d > 1 /\ OnPath(p, a, p[d - 1]))

\* the parents of n nodes below the root allocated in pre-order: the parent
\* of a node is the node allocated just before it or an ancestor of that one.
\* Every tree is one of these up to the numbering of its nodes.
PreParents(n) ==
    {p \in Parents(n) : \A k \in 2..n : OnPath(p, p[k], k)}

\* text is a tree allocated in pre-order with at most `most` nodes below the
\* root, over the node values V
IsPreTree(t, most, V) ==
    \E n \in 0..most :
        \E vals \in [1..n -> V], par \in PreParents(n) : t = MkTree(vals, par)

\* Children with the children taken last to first
ChildrenReversed(t, n) ==
    LET RECURSIVE From(_)
        From(k) == IF k > Len(t) THEN <<>>
                   ELSE IF t[k].parent = n THEN From(k + 1) \o <<k>>
                   ELSE From(k + 1)
    IN  From(1)

\* node.children(): the children of node n, in source order
Children(t, n) ==
    LET RECURSIVE From(_)
        From(k) == IF k > Len(t) THEN <<>>
                   ELSE IF t[k].parent = n THEN <<k>> \o From(k + 1)
                   ELSE From(k + 1)
    IN  From(1)

----------------------------------------------------------------------------
(* The Parser and the classification of nodes *)

\* MarkdownNodeFrom with the fallback arm yielding Text instead of Empty
MarkdownNodeFromText(value) ==
    CASE value.tag = "Emph" -> "Emphasis"
      [] value.tag = "Item" -> "ListItem"
      [] value.tag \in {"Heading", "Paragraph", "CodeBlock", "Code", "Strong",
                        "Link", "SoftBreak", "Text", "List", "LineBreak",
                        "Image"} -> value.tag
      [] OTHER -> "Text"

\* impl From<&NodeValue> for MarkdownNode
MarkdownNodeFrom(value) ==
    CASE value.tag = "Heading" -> "Heading"
      [] value.tag = "Paragraph" -> "Paragraph"
      [] value.tag = "CodeBlock" -> "CodeBlock"
      [] value.tag = "Code" -> "Code"
      [] value.tag = "Strong" -> "Strong"
      [] value.tag = "Emph" -> "Emphasis"
      [] value.tag = "Link" -> "Link"
      [] value.tag = "SoftBreak" -> "SoftBreak"
      [] value.tag = "Text" -> "Text"
      [] value.tag = "List" -> "List"
      [] value.tag = "Item" -> "ListItem"
      [] value.tag = "LineBreak" -> "LineBreak"
      [] value.tag = "Image" -> "Image"
      [] OTHER -> "Empty"

\* MarkdownNodeDefault being the first variant of the enum
MarkdownNodeDefaultFirst == "Heading"

\* impl Default for MarkdownNode
MarkdownNodeDefault == "Empty"

\* ParserDefault emptying the nodes but keeping the 'last node' of the
\* previous conversion
ParserKeptLast == [nodes |-> <<>>, last_md_node |-> parser.last_md_node]

\* ParserDefault yielding the Parser of the previous conversion
ParserKept == parser

\* Parser::default()
ParserDefault == [nodes |-> <<>>, last_md_node |-> MarkdownNodeDefault]

\* update_last_node keeping Paragraph while the paragraph's text is visited
update_last_nodeInParagraph(p, node) ==
    IF p.last_md_node = "Paragraph" /\ node = "Text" THEN p
    ELSE [p EXCEPT !.last_md_node = node]

\* Parser::update_last_node
update_last_node(p, node) == [p EXCEPT !.last_md_node = node]

\* Parser::last_node
last_node(p) == p.last_md_node

\* append_roff inserting at the front
append_roffFront(p, roff) == [p EXCEPT !.nodes = <<roff>> \o p.nodes]

\* Parser::append_roff
append_roff(p, roff) == [p EXCEPT !.nodes = Append(p.nodes, roff)]

\* Parser::finalize
finalize(p) == p.nodes

----------------------------------------------------------------------------
(* The callback of markdown_to_roff, one operator per match arm.  Each     *)
(* yields the Parser after the arm and whether the arm returned from the   *)
(* callback (skipping update_last_node).                                   *)

Fall(p) == [parser |-> p, returned |-> FALSE]
Returned(p) == [parser |-> p, returned |-> TRUE]

\* ArmLink with the arguments of RoffNode::url exchanged
ArmLinkSwapped(p, link) ==
    LET url == from_utf8_lossy(link.url)
        title == from_utf8_lossy(link.title)
    IN  Fall(append_roff(p, RoffUrl(url, title)))

\* NodeValue::Link(ref link) | NodeValue::Image(ref link)
ArmLink(p, link) ==
    LET url == from_utf8_lossy(link.url)
        title == from_utf8_lossy(link.title)
    IN  Fall(append_roff(p, RoffUrl(title, url)))

\* ArmCode with the literal bold instead of italic
ArmCodeBold(p, code) ==
    LET t == from_utf8_lossy(code.literal)
        p1 == append_roff(p, RoffText(S_backtick, "plain"))
        p2 == append_roff(p1, RoffText(t, "bold"))
    IN  Fall(append_roff(p2, RoffText(S_backtick, "plain")))

\* NodeValue::Code(code)
ArmCode(p, code) ==
    LET t == from_utf8_lossy(code.literal)
        p1 == append_roff(p, RoffText(S_backtick, "plain"))
        p2 == append_roff(p1, RoffText(t, "italic"))
    IN  Fall(append_roff(p2, RoffText(S_backtick, "plain")))

\* ArmCodeBlock with the caption attached whether or not info is empty
ArmCodeBlockCaptioned(p, block) ==
    LET t == from_utf8_lossy(block.literal)
        info == from_utf8_lossy(block.info)
        title == Some(RoffText(info, "bold"))
        para == RoffNested(<<RoffIndentedParagraph(
                    <<RoffLinebreak, RoffExample(<<RoffText(t, "plain")>>)>>,
                    Some(2), title)>>)
    IN  Fall(append_roff(p, para))

\* NodeValue::CodeBlock(ref block)
ArmCodeBlock(p, block) ==
    LET t == from_utf8_lossy(block.literal)
        info == from_utf8_lossy(block.info)
        title == IF info # <<>> THEN Some(RoffText(info, "bold")) ELSE None
        para == RoffNested(<<RoffIndentedParagraph(
                    <<RoffLinebreak, RoffExample(<<RoffText(t, "plain")>>)>>,
                    Some(2), title)>>)
    IN  Fall(append_roff(p, para))

\* ArmTextHeading without the return: update_last_node follows
ArmTextHeadingFall(p, t) ==
    LET p1 == append_roff(p, RoffLinebreak)
        p2 == append_roff(p1, RoffLinebreak)
        p3 == append_roff(p2, RoffText(t, "bold"))
        p4 == append_roff(p3, RoffLinebreak)
        p5 == append_roff(p4, RoffText(RepeatEq(StrLen(t) + 2), "plain"))
    IN  Fall(append_roff(p5, RoffLinebreak))

\* the MarkdownNode::Heading arm of NodeValue::Text
ArmTextHeading(p, t) ==
    LET p1 == append_roff(p, RoffLinebreak)
        p2 == append_roff(p1, RoffLinebreak)
        p3 == append_roff(p2, RoffText(t, "bold"))
        p4 == append_roff(p3, RoffLinebreak)
        p5 == append_roff(p4, RoffText(RepeatEq(StrLen(t) + 2), "plain"))
    IN  Returned(append_roff(p5, RoffLinebreak))

\* ArmTextOther without the MarkdownNode::ListItem arm
ArmTextOtherNoItem(p, t) ==
    CASE last_node(p) = "Paragraph" ->
            Fall(append_roff(p, RoffParagraph(<<RoffText(t, "plain")>>)))
      [] last_node(p) = "Emphasis" ->
            Fall(append_roff(p, RoffText(t, "italic")))
      [] last_node(p) = "Strong" ->
            Fall(append_roff(p, RoffText(t, "bold")))
      [] OTHER ->
            Fall(append_roff(p, RoffText(t, "plain")))

\* the other arms of NodeValue::Text
ArmTextOther(p, t) ==
    CASE last_node(p) = "Paragraph" ->
            Fall(append_roff(p, RoffParagraph(<<RoffText(t, "plain")>>)))
      [] last_node(p) = "Emphasis" ->
            Fall(append_roff(p, RoffText(t, "italic")))
      [] last_node(p) = "Strong" ->
            Fall(append_roff(p, RoffText(t, "bold")))
      [] last_node(p) = "ListItem" ->
            Fall(append_roff(append_roff(p, RoffText(t, "plain")), RoffLinebreak))
      [] OTHER ->
            Fall(append_roff(p, RoffText(t, "plain")))

\* NodeValue::Text(ref text)
ArmText(p, value) ==
    LET t == from_utf8_lossy(value.text)
    IN  IF last_node(p) = "Heading" THEN ArmTextHeading(p, t)
        ELSE ArmTextOther(p, t)

\* NodeValue::LineBreak
ArmLineBreak(p) == Fall(append_roff(p, RoffLinebreak))

\* ArmOther breaking the line
ArmOtherBreak(p) == Fall(append_roff(p, RoffLinebreak))

\* _ => {}
ArmOther(p) == Fall(p)

\* the match on the node's value
Match(p, value) ==
    CASE value.tag \in {"Link", "Image"} -> ArmLink(p, value)
      [] value.tag = "Code" -> ArmCode(p, value)
      [] value.tag = "CodeBlock" -> ArmCodeBlock(p, value)
      [] value.tag = "Text" -> ArmText(p, value)
      [] value.tag = "LineBreak" -> ArmLineBreak(p)
      [] OTHER -> ArmOther(p)

\* the whole closure: the match, then update_last_node unless an arm returned
Callback(p, value) ==
    LET r == Match(p, value)
    IN  IF r.returned THEN r.parser
        ELSE update_last_node(r.parser, MarkdownNodeFrom(value))

\* iter_nodes as the recursive function it is: f on the node, then
\* iter_nodes on each child in turn
RECURSIVE iter_nodes(_, _, _)
iter_nodes(t, n, p) ==
    LET kids == Children(t, n)
        RECURSIVE Loop(_, _)
        Loop(k, q) == IF k > Len(kids) THEN q
                      ELSE Loop(k + 1, iter_nodes(t, kids[k], q))
    IN  Loop(1, Callback(p, t[n].value))

\* markdown_to_roff as a function of the tree parse_document yields
markdown_to_roff(t) == finalize(iter_nodes(t, 1, ParserDefault))

\* iter_nodes keeping every Parser on the way: trace is the Parsers so far,
\* the latest last; f on the node adds one, then each child in turn
RECURSIVE iter_nodes_trace(_, _, _)
iter_nodes_trace(t, n, trace) ==
    LET kids == Children(t, n)
        RECURSIVE Loop(_, _)
        Loop(k, tr) == IF k > Len(kids) THEN tr
                       ELSE Loop(k + 1, iter_nodes_trace(t, kids[k], tr))
    IN  Loop(1, Append(trace, Callback(trace[Len(trace)], t[n].value)))

\* the Parser of markdown_to_roff at its creation and after each callback
markdown_to_roff_trace(t) == iter_nodes_trace(t, 1, <<ParserDefault>>)

----------------------------------------------------------------------------
(* The binary, src/src/main.rs, has its own Parser, MarkdownNode and       *)
(* converter, parse_markdown.  They are translated from main.rs, apart     *)
(* from the library's.                                                     *)

\* main.rs: impl From<&NodeValue> for MarkdownNode
BinMarkdownNodeFrom(value) ==
    CASE value.tag = "Heading" -> "Heading"
      [] value.tag = "Paragraph" -> "Paragraph"
      [] value.tag = "CodeBlock" -> "CodeBlock"
      [] value.tag = "Code" -> "Code"
      [] value.tag = "Strong" -> "Strong"
      [] value.tag = "Emph" -> "Emphasis"
      [] value.tag = "Link" -> "Link"
      [] value.tag = "SoftBreak" -> "SoftBreak"
      [] value.tag = "Text" -> "Text"
      [] value.tag = "List" -> "List"
      [] value.tag = "Item" -> "ListItem"
      [] value.tag = "LineBreak" -> "LineBreak"
      [] value.tag = "Image" -> "Image"
      [] OTHER -> "Empty"

\* main.rs: impl Default for MarkdownNode
BinMarkdownNodeDefault == "Empty"

\* main.rs: #[derive(Default)] struct Parser
BinParserDefault == [nodes |-> <<>>, last_md_node |-> BinMarkdownNodeDefault]

\* main.rs: Parser::update_last_node, last_node, finalize, append_roff
BinUpdateLastNode(p, node) == [p EXCEPT !.last_md_node = node]
BinLastNode(p) == p.last_md_node
BinFinalize(p) == p.nodes
BinAppendRoff(p, roff) == [p EXCEPT !.nodes = Append(p.nodes, roff)]

\* main.rs: NodeValue::Link(ref link) | NodeValue::Image(ref link)
BinArmLink(p, link) ==
    LET url == from_utf8_lossy(link.url)
        title == from_utf8_lossy(link.title)
    IN  Fall(BinAppendRoff(p, RoffUrl(title, url)))

\* BinArmCode with the literal left undecorated
BinArmCodePlain(p, code) ==
    LET t == from_utf8_lossy(code.literal)
        p1 == BinAppendRoff(p, RoffText(S_backtick, "plain"))
        p2 == BinAppendRoff(p1, RoffText(t, "plain"))
    IN  Fall(BinAppendRoff(p2, RoffText(S_backtick, "plain")))

\* main.rs: NodeValue::Code(code)
BinArmCode(p, code) ==
    LET t == from_utf8_lossy(code.literal)
        p1 == BinAppendRoff(p, RoffText(S_backtick, "plain"))
        p2 == BinAppendRoff(p1, RoffText(t, "italic"))
    IN  Fall(BinAppendRoff(p2, RoffText(S_backtick, "plain")))

\* main.rs: NodeValue::CodeBlock(ref block)
BinArmCodeBlock(p, block) ==
    LET t == from_utf8_lossy(block.literal)
        info == from_utf8_lossy(block.info)
        title == IF info # <<>> THEN Some(RoffText(info, "bold")) ELSE None
        para == RoffNested(<<RoffIndentedParagraph(
                    <<RoffLinebreak, RoffExample(<<RoffText(t, "plain")>>)>>,
                    Some(2), title)>>)
    IN  Fall(BinAppendRoff(p, para))

\* main.rs: the MarkdownNode::Heading arm of NodeValue::Text
BinArmTextHeading(p, t) ==
    LET p1 == BinAppendRoff(p, RoffLinebreak)
        p2 == BinAppendRoff(p1, RoffLinebreak)
        p3 == BinAppendRoff(p2, RoffText(t, "bold"))
        p4 == BinAppendRoff(p3, RoffLinebreak)
        p5 == BinAppendRoff(p4, RoffText(RepeatEq(StrLen(t) + 2), "plain"))
    IN  Returned(BinAppendRoff(p5, RoffLinebreak))

\* main.rs: the other arms of NodeValue::Text
BinArmTextOther(p, t) ==
    CASE BinLastNode(p) = "Paragraph" ->
            Fall(BinAppendRoff(p, RoffParagraph(<<RoffText(t, "plain")>>)))
      [] BinLastNode(p) = "Emphasis" ->
            Fall(BinAppendRoff(p, RoffText(t, "italic")))
      [] BinLastNode(p) = "Strong" ->
            Fall(BinAppendRoff(p, RoffText(t, "bold")))
      [] BinLastNode(p) = "ListItem" ->
            Fall(BinAppendRoff(BinAppendRoff(p, RoffText(t, "plain")),
                               RoffLinebreak))
      [] OTHER ->
            Fall(BinAppendRoff(p, RoffText(t, "plain")))

\* main.rs: NodeValue::Text(ref text)
BinArmText(p, value) ==
    LET t == from_utf8_lossy(value.text)
    IN  IF BinLastNode(p) = "Heading" THEN BinArmTextHeading(p, t)
        ELSE BinArmTextOther(p, t)

\* main.rs: NodeValue::LineBreak
BinArmLineBreak(p) == Fall(BinAppendRoff(p, RoffLinebreak))

\* main.rs: _ => {}
BinArmOther(p) == Fall(p)

\* main.rs: the match on the node's value
BinMatch(p, value) ==
    CASE value.tag \in {"Link", "Image"} -> BinArmLink(p, value)
      [] value.tag = "Code" -> BinArmCode(p, value)
      [] value.tag = "CodeBlock" -> BinArmCodeBlock(p, value)
      [] value.tag = "Text" -> BinArmText(p, value)
      [] value.tag = "LineBreak" -> BinArmLineBreak(p)
      [] OTHER -> BinArmOther(p)

\* main.rs: the whole closure of parse_markdown
BinCallback(p, value) ==
    LET r == BinMatch(p, value)
    IN  IF r.returned THEN r.parser
        ELSE BinUpdateLastNode(r.parser, BinMarkdownNodeFrom(value))

\* the converter that is running: parse_markdown in the binary,
\* markdown_to_roff in the library
InBinary == entry = "main"
Closure(p, value) ==
    IF InBinary THEN BinCallback(p, value) ELSE Callback(p, value)
NewParser == IF InBinary THEN BinParserDefault ELSE ParserDefault
Finalized(p) == IF InBinary THEN BinFinalize(p) ELSE finalize(p)

----------------------------------------------------------------------------
(* markdown_to_roff as a state machine: Parser::default and parse_document, *)
(* then iter_nodes with its call stack explicit, then finalize.            *)

Frame(n) == [node |-> n, idx |-> 0]

Top == stack[Len(stack)]

\* iter_nodes is about to be called: on the root, or on the next child of
\* the node whose children the innermost call is iterating
HasCall ==
    /\ pc = "iter"
    /\ IF stack = <<>> THEN TRUE
       ELSE Top.idx < Len(Children(text, Top.node))

\* the node that call is made on
Callee ==
    IF stack = <<>> THEN 1 ELSE Children(text, Top.node)[Top.idx + 1]

\* the call stack once iter_nodes(n, ..) has been entered
Pushed(n) ==
    IF stack = <<>> THEN <<Frame(n)>>
    ELSE Append([stack EXCEPT ![Len(stack)].idx = @ + 1], Frame(n))

\* let mut parser = Parser::default(); let root = parse_document(arena, text, ..)
ParseDocument ==
    /\ pc = "entry"
    /\ parser' = NewParser
    /\ arena' = arena + Len(text)
    /\ stack' = <<>>
    /\ visited' = <<>>
    /\ before' = NewParser
    /\ pc' = "iter"
    /\ UNCHANGED <<text, result>>
    /\ UNCHANGED bookVars
    /\ UNCHANGED hostVars

\* iter_nodes(node, out, f) entered on the node n: f(n, out), the closure of
\* markdown_to_roff, runs on it, and the loop over n's children is next
Enter(n) ==
    /\ \E value \in {text[n].value} : parser' = Closure(parser, value)
    /\ stack' = Pushed(n)
    /\ visited' = Append(visited, n)
    /\ before' = parser
    /\ UNCHANGED <<text, pc, result, arena>>
    /\ UNCHANGED bookVars
    /\ UNCHANGED hostVars

\* the call on a node of each arm of the closure's match
VisitLink ==
    /\ HasCall
    /\ text[Callee].value.tag \in {"Link", "Image"}
    /\ Enter(Callee)

VisitCode ==
    /\ HasCall
    /\ text[Callee].value.tag = "Code"
    /\ Enter(Callee)

VisitCodeBlock ==
    /\ HasCall
    /\ text[Callee].value.tag = "CodeBlock"
    /\ Enter(Callee)

VisitText ==
    /\ HasCall
    /\ text[Callee].value.tag = "Text"
    /\ Enter(Callee)

VisitLineBreak ==
    /\ HasCall
    /\ text[Callee].value.tag = "LineBreak"
    /\ Enter(Callee)

VisitOther ==
    /\ HasCall
    /\ text[Callee].value.tag \notin
          {"Link", "Image", "Code", "CodeBlock", "Text", "LineBreak"}
    /\ Enter(Callee)

\* LoopOver expecting one child more than the node has
LoopOverOneMore == Top.idx = Len(Children(text, Top.node)) + 1

\* for c in node.children(): the innermost call has been through every child
LoopOver == Top.idx = Len(Children(text, Top.node))

\* the for loop of iter_nodes is over: the call returns; when it was the
\* call on the root, the walk is over
IterReturn ==
    /\ pc = "iter"
    /\ stack # <<>>
    /\ LoopOver
    /\ stack' = SubSeq(stack, 1, Len(stack) - 1)
    /\ pc' = IF Len(stack) = 1 THEN "finalize" ELSE "iter"
    /\ UNCHANGED <<text, parser, result, visited, before, arena>>
    /\ UNCHANGED bookVars
    /\ UNCHANGED hostVars

\* parser.finalize()
Finalize ==
    /\ pc = "finalize"
    /\ result' = Finalized(parser)
    /\ pc' = "returned"
    /\ UNCHANGED <<text, parser, stack, visited, before, arena>>
    /\ UNCHANGED bookVars
    /\ UNCHANGED hostVars

\* one step of markdown_to_roff
Next ==
    \/ ParseDocument
    \/ VisitLink
    \/ VisitCode
    \/ VisitCodeBlock
    \/ VisitText
    \/ VisitLineBreak
    \/ VisitOther
    \/ IterReturn
    \/ Finalize

----------------------------------------------------------------------------
(* Spec: markdown_to_roff called on one chapter, any tree of the bounds *)

NoFiles == [dirs |-> {}, files |-> <<>>]
NoBook == [title |-> None, book |-> <<>>]
NoPage == [title |-> <<>>, section |-> "Miscellaneous", sections |-> <<>>]

Init ==
    /\ \/ IsTree(text, MaxNodes, NodeValues)
       \/ IsTree(text, MaxDeep, DeepValues)
    /\ parser = [nodes |-> <<>>, last_md_node |-> "Empty"]
    /\ stack = <<>>
    /\ pc = "entry"
    /\ result = <<>>
    /\ visited = <<>>
    /\ before = [nodes |-> <<>>, last_md_node |-> "Empty"]
    /\ arena = 0
    /\ ctx = NoBook
    /\ entry = "markdown_to_roff"
    /\ item = 0
    /\ page = NoPage
    /\ pages = <<>>
    /\ fs = NoFiles
    /\ stdout = <<>>

Spec == Init /\ [][Next]_vars

----------------------------------------------------------------------------
(* SpecLive: markdown_to_roff called on one chapter and run to its end, on *)
(* the trees of at most MaxLive nodes below the root over LiveValues       *)

InitLive ==
    /\ IsPreTree(text, MaxLive, LiveValues)
    /\ parser = [nodes |-> <<>>, last_md_node |-> "Empty"]
    /\ stack = <<>>
    /\ pc = "entry"
    /\ result = <<>>
    /\ visited = <<>>
    /\ before = [nodes |-> <<>>, last_md_node |-> "Empty"]
    /\ arena = 0
    /\ ctx = NoBook
    /\ entry = "markdown_to_roff"
    /\ item = 0
    /\ page = NoPage
    /\ pages = <<>>
    /\ fs = NoFiles
    /\ stdout = <<>>

\* markdown_to_roff is sequential code with nothing to wait for: a step that
\* can be taken is taken
SpecLive == InitLive /\ [][Next]_vars /\ WF_vars(Next)

----------------------------------------------------------------------------
(* SpecArms: markdown_to_roff called on one chapter, any tree of at most   *)
(* MaxNodes nodes below the root over every node value, or of at most      *)
(* MaxLive nodes over LiveValues                                           *)

InitArms ==
    /\ \/ IsTree(text, MaxNodes, NodeValues)
       \/ IsPreTree(text, MaxLive, LiveValues)
    /\ parser = [nodes |-> <<>>, last_md_node |-> "Empty"]
    /\ stack = <<>>
    /\ pc = "entry"
    /\ result = <<>>
    /\ visited = <<>>
    /\ before = [nodes |-> <<>>, last_md_node |-> "Empty"]
    /\ arena = 0
    /\ ctx = NoBook
    /\ entry = "markdown_to_roff"
    /\ item = 0
    /\ page = NoPage
    /\ pages = <<>>
    /\ fs = NoFiles
    /\ stdout = <<>>

SpecArms == InitArms /\ [][Next]_vars

----------------------------------------------------------------------------
(* SpecText: markdown_to_roff called on one chapter whose nodes are        *)
(* headings, paragraphs, list items, inlines and text, four levels deep    *)

InitText ==
    /\ \/ IsPreTree(text, MaxHead, HeadValues)
       \/ IsPreTree(text, MaxMid, MidValues)
    /\ parser = [nodes |-> <<>>, last_md_node |-> "Empty"]
    /\ stack = <<>>
    /\ pc = "entry"
    /\ result = <<>>
    /\ visited = <<>>
    /\ before = [nodes |-> <<>>, last_md_node |-> "Empty"]
    /\ arena = 0
    /\ ctx = NoBook
    /\ entry = "markdown_to_roff"
    /\ item = 0
    /\ page = NoPage
    /\ pages = <<>>
    /\ fs = NoFiles
    /\ stdout = <<>>

\* the steps of markdown_to_roff that such a chapter takes
NextText ==
    \/ ParseDocument
    \/ VisitText
    \/ VisitOther
    \/ IterReturn
    \/ Finalize

SpecText == InitText /\ [][NextText]_vars

----------------------------------------------------------------------------
(* The assembler: mdbook_to_roff and mdbook_to_roff_chapters *)

\* Roff::new(title, SectionNumber::Miscellaneous)
RoffNew(title) ==
    [title |-> title, section |-> "Miscellaneous", sections |-> <<>>]

\* RoffSection putting the section first instead of last
RoffSectionFront(roff, name, content) ==
    [roff EXCEPT !.sections = <<[name |-> name, nodes |-> content]>> \o @]

\* Roff::section(name, content)
RoffSection(roff, name, content) ==
    [roff EXCEPT !.sections = Append(@, [name |-> name, nodes |-> content])]

\* VecPush replacing the vector by the one element
VecPushOnly(v, x) == <<x>>

\* Vec::push
VecPush(v, x) == Append(v, x)

\* Option::unwrap_or_default for a string
unwrap_or_default(opt) == IF opt.some THEN opt.value ELSE <<>>

\* if let BookItem::Chapter(ref ch) = *item
IsChapter(it) == it.tag = "Chapter"

\* the chapter contents of the books of SpecBook
DocHeading ==
    MkTree(<<Leaf("Heading"), [tag |-> "Text", text |-> S_Title],
             Leaf("Paragraph"), [tag |-> "Text", text |-> S_eacute],
             [tag |-> "Code", literal |-> S_x]>>,
           <<1, 2, 1, 4, 4>>)
DocCode ==
    MkTree(<<[tag |-> "CodeBlock", literal |-> S_main, info |-> S_rust],
             Leaf("Paragraph"),
             [tag |-> "Link", url |-> S_url, title |-> S_X],
             Leaf("LineBreak")>>,
           <<1, 1, 3, 3>>)
DocEmpty == MkTree(<<>>, <<>>)
Contents == {DocHeading, DocCode, DocEmpty}

\* what ctx.book.iter() may yield
BookItems ==
    {[tag |-> "Separator"], [tag |-> "PartTitle", title |-> S_X]}
    \cup {[tag |-> "Chapter", name |-> n, content |-> c] :
              n \in {S_A, S_B}, c \in Contents}

\* the item the loop is at
Item == ctx.book[item]

\* let arena = Arena::new(); the title and the page; the loop begins
ToRoffBegin ==
    /\ pc = "call"
    /\ entry = "mdbook_to_roff"
    /\ arena' = 0
    /\ page' = RoffNew(unwrap_or_default(ctx.title))
    /\ item' = 1
    /\ pc' = "loop"
    /\ UNCHANGED <<text, parser, stack, result, visited, before, ctx, entry, pages>>
    /\ UNCHANGED hostVars

\* an item that is a chapter: markdown_to_roff(ch.content.as_str(), &arena)
ToRoffChapter ==
    /\ pc = "loop"
    /\ entry = "mdbook_to_roff"
    /\ item <= Len(ctx.book)
    /\ IsChapter(Item)
    /\ text' = Item.content
    /\ pc' = "entry"
    /\ UNCHANGED <<parser, stack, result, visited, before, arena, bookVars>>
    /\ UNCHANGED hostVars

\* page = page.section(ch.name.as_str(), parsed)
ToRoffSection ==
    /\ pc = "returned"
    /\ entry = "mdbook_to_roff"
    /\ page' = RoffSection(page, Item.name, result)
    /\ item' = item + 1
    /\ pc' = "loop"
    /\ UNCHANGED <<walkVarsButPc, ctx, entry, pages>>
    /\ UNCHANGED hostVars

\* an item that is no chapter
ToRoffSkip ==
    /\ pc = "loop"
    /\ entry = "mdbook_to_roff"
    /\ item <= Len(ctx.book)
    /\ ~IsChapter(Item)
    /\ item' = item + 1
    /\ UNCHANGED <<walkVars, ctx, entry, page, pages>>
    /\ UNCHANGED hostVars

\* the loop is over: page is returned
ToRoffEnd ==
    /\ pc = "loop"
    /\ entry = "mdbook_to_roff"
    /\ item > Len(ctx.book)
    /\ pc' = "exit"
    /\ UNCHANGED <<walkVarsButPc, bookVars>>
    /\ UNCHANGED hostVars

\* let arena = Arena::new(); let mut pages = vec![]
ChaptersBegin ==
    /\ pc = "call"
    /\ entry = "mdbook_to_roff_chapters"
    /\ arena' = 0
    /\ pages' = <<>>
    /\ item' = 1
    /\ pc' = "loop"
    /\ UNCHANGED <<text, parser, stack, result, visited, before, ctx, entry, page>>
    /\ UNCHANGED hostVars

\* an item that is a chapter: Roff::new(ch.name), then markdown_to_roff
ChaptersChapter ==
    /\ pc = "loop"
    /\ entry = "mdbook_to_roff_chapters"
    /\ item <= Len(ctx.book)
    /\ IsChapter(Item)
    /\ page' = RoffNew(Item.name)
    /\ text' = Item.content
    /\ pc' = "entry"
    /\ UNCHANGED <<parser, stack, result, visited, before, arena,
                   ctx, entry, item, pages>>
    /\ UNCHANGED hostVars

\* page = page.section(ch.name.as_str(), parsed); pages.push(page)
ChaptersPush ==
    /\ pc = "returned"
    /\ entry = "mdbook_to_roff_chapters"
    /\ pages' = VecPush(pages, RoffSection(page, Item.name, result))
    /\ page' = RoffSection(page, Item.name, result)
    /\ item' = item + 1
    /\ pc' = "loop"
    /\ UNCHANGED <<walkVarsButPc, ctx, entry>>
    /\ UNCHANGED hostVars

\* an item that is no chapter
ChaptersSkip ==
    /\ pc = "loop"
    /\ entry = "mdbook_to_roff_chapters"
    /\ item <= Len(ctx.book)
    /\ ~IsChapter(Item)
    /\ item' = item + 1
    /\ UNCHANGED <<walkVars, ctx, entry, page, pages>>
    /\ UNCHANGED hostVars

\* the loop is over: pages is returned
ChaptersEnd ==
    /\ pc = "loop"
    /\ entry = "mdbook_to_roff_chapters"
    /\ item > Len(ctx.book)
    /\ pc' = "exit"
    /\ UNCHANGED <<walkVarsButPc, bookVars>>
    /\ UNCHANGED hostVars

\* mdbook_to_roff as a function of the context: the page after the first k
\* items, and the page returned
RECURSIVE mdbook_to_roff_upto(_, _)
mdbook_to_roff_upto(c, k) ==
    IF k = 0 THEN RoffNew(unwrap_or_default(c.title))
    ELSE LET pg == mdbook_to_roff_upto(c, k - 1)
             it == c.book[k]
         IN  IF IsChapter(it)
             THEN RoffSection(pg, it.name, markdown_to_roff(it.content))
             ELSE pg
mdbook_to_roff(c) == mdbook_to_roff_upto(c, Len(c.book))

\* mdbook_to_roff_chapters as a function of the context: the pages after the
\* first k items, and the pages returned
RECURSIVE mdbook_to_roff_chapters_upto(_, _)
mdbook_to_roff_chapters_upto(c, k) ==
    IF k = 0 THEN <<>>
    ELSE LET ps == mdbook_to_roff_chapters_upto(c, k - 1)
             it == c.book[k]
         IN  IF IsChapter(it)
             THEN VecPush(ps, RoffSection(RoffNew(it.name), it.name,
                                          markdown_to_roff(it.content)))
             ELSE ps
mdbook_to_roff_chapters(c) == mdbook_to_roff_chapters_upto(c, Len(c.book))

----------------------------------------------------------------------------
(* SpecBook: either entry point called on a book of at most MaxItems items *)

InitBook ==
    /\ \E n \in 0..MaxItems : ctx \in [title : {None, Some(S_Title)},
                                        book : [1..n -> BookItems]]
    /\ entry \in {"mdbook_to_roff", "mdbook_to_roff_chapters"}
    /\ pc = "call"
    /\ item = 0
    /\ page = NoPage
    /\ pages = <<>>
    /\ text = DocEmpty
    /\ parser = [nodes |-> <<>>, last_md_node |-> "Empty"]
    /\ stack = <<>>
    /\ result = <<>>
    /\ visited = <<>>
    /\ before = [nodes |-> <<>>, last_md_node |-> "Empty"]
    /\ arena = 0
    /\ fs = NoFiles
    /\ stdout = <<>>

NextBook ==
    \/ ToRoffBegin
    \/ ToRoffChapter
    \/ ToRoffSection
    \/ ToRoffSkip
    \/ ToRoffEnd
    \/ ChaptersBegin
    \/ ChaptersChapter
    \/ ChaptersPush
    \/ ChaptersSkip
    \/ ChaptersEnd
    \/ ParseDocument
    \/ VisitLink
    \/ VisitCode
    \/ VisitCodeBlock
    \/ VisitText
    \/ VisitLineBreak
    \/ VisitOther
    \/ IterReturn
    \/ Finalize

SpecBook == InitBook /\ [][NextBook]_vars

----------------------------------------------------------------------------
(* main: the binary run by mdBook as a renderer.  ctx has, besides title   *)
(* and book, the table `output.man` of the book's configuration: absent,   *)
(* or a table whose keys output-dir, split-chapters and filename are each  *)
(* absent or set.                                                          *)

S_man == <<109, 97, 110>>                                          \* "man"
S_book_man == <<98, 111, 111, 107, 46, 109, 97, 110>>              \* "book.man"
S_chapter == <<99, 104, 97, 112, 116, 101, 114>>                   \* "chapter"
S_dot_man == <<46, 109, 97, 110>>                                  \* ".man"
S_out_1 == <<111, 117, 116, 46, 49>>                               \* "out.1"

\* #[derive(Default)] for ManOutputConfiguration
ManOutputConfigurationDefault == [output_dir |-> None, split_chapters |-> FALSE]

\* Deserialize for ManOutputConfiguration, #[serde(default)]: a key that is
\* absent takes its default, a key that is no field of the struct is ignored
Deserialize(table) ==
    [output_dir |-> table.output_dir,
     split_chapters |-> IF table.split_chapters.some
                        THEN table.split_chapters.value ELSE FALSE]

\* get_deserialized_opt("output.man").ok().flatten().unwrap_or_default()
Cfg ==
    IF ctx.output_man.some THEN Deserialize(ctx.output_man.value)
    ELSE ManOutputConfigurationDefault

\* the decimal digits of i, as format!("{}", i) writes them
RECURSIVE Decimal(_)
Decimal(i) ==
    IF i < 10 THEN <<48 + i>> ELSE Decimal(i \div 10) \o <<48 + (i % 10)>>

\* ChapterName numbering the chapters from 1
ChapterNameFromOne(i) == S_chapter \o Decimal(i + 1) \o S_dot_man

\* format!("chapter{}.man", i)
ChapterName(i) == S_chapter \o Decimal(i) \o S_dot_man

\* page.to_string(): the text roffman renders the document to
to_string(roff) == [rendered |-> roff]

\* path.exists()
Exists(f, path) == path \in f.dirs

\* if !path.exists() { fs::create_dir_all(&path) }
CreateIfAbsent(f, path) ==
    IF ~Exists(f, path) THEN [f EXCEPT !.dirs = @ \cup {path}] ELSE f

\* fs::write(path.join(name), content): the file is created or replaced
Write(f, path, name, content) ==
    [f EXCEPT !.files =
        [k \in DOMAIN f.files \cup {<<path, name>>} |->
            IF k = <<path, name>> THEN content ELSE f.files[k]]]

\* let arena = Arena::new(); cfg; the single-document branch: title and page
MainSingleBegin ==
    /\ pc = "call"
    /\ InBinary
    /\ ~Cfg.split_chapters
    /\ arena' = 0
    /\ page' = RoffNew(unwrap_or_default(ctx.title))
    /\ item' = 1
    /\ pc' = "loop"
    /\ UNCHANGED <<text, parser, stack, result, visited, before, ctx, entry, pages>>
    /\ UNCHANGED hostVars

\* an item that is a chapter: parse_markdown(ch.content.as_str(), &arena)
MainSingleChapter ==
    /\ pc = "loop"
    /\ InBinary
    /\ ~Cfg.split_chapters
    /\ item <= Len(ctx.book)
    /\ IsChapter(Item)
    /\ text' = Item.content
    /\ pc' = "entry"
    /\ UNCHANGED <<parser, stack, result, visited, before, arena, bookVars>>
    /\ UNCHANGED hostVars

\* page = page.section(ch.name.as_str(), parsed)
MainSingleSection ==
    /\ pc = "returned"
    /\ InBinary
    /\ ~Cfg.split_chapters
    /\ page' = RoffSection(page, Item.name, result)
    /\ item' = item + 1
    /\ pc' = "loop"
    /\ UNCHANGED <<walkVarsButPc, ctx, entry, pages>>
    /\ UNCHANGED hostVars

\* an item that is no chapter
MainSingleSkip ==
    /\ pc = "loop"
    /\ InBinary
    /\ ~Cfg.split_chapters
    /\ item <= Len(ctx.book)
    /\ ~IsChapter(Item)
    /\ item' = item + 1
    /\ UNCHANGED <<walkVars, ctx, entry, page, pages>>
    /\ UNCHANGED hostVars

\* the loop is over, output_dir is set: the directory is created when it
\* does not exist, and the page is written to book.man in it
MainSingleWrite ==
    /\ pc = "loop"
    /\ InBinary
    /\ ~Cfg.split_chapters
    /\ item > Len(ctx.book)
    /\ Cfg.output_dir.some
    /\ fs' = Write(CreateIfAbsent(fs, Cfg.output_dir.value),
                   Cfg.output_dir.value, S_book_man, to_string(page))
    /\ pc' = "exit"
    /\ UNCHANGED <<walkVarsButPc, bookVars, stdout>>

\* the loop is over, output_dir is not set: println!("{}", page)
MainSinglePrint ==
    /\ pc = "loop"
    /\ InBinary
    /\ ~Cfg.split_chapters
    /\ item > Len(ctx.book)
    /\ ~Cfg.output_dir.some
    /\ stdout' = Append(stdout, to_string(page))
    /\ pc' = "exit"
    /\ UNCHANGED <<walkVarsButPc, bookVars, fs>>

\* let arena = Arena::new(); cfg; the split branch: let mut pages = vec![]
MainSplitBegin ==
    /\ pc = "call"
    /\ InBinary
    /\ Cfg.split_chapters
    /\ arena' = 0
    /\ pages' = <<>>
    /\ item' = 1
    /\ pc' = "loop"
    /\ UNCHANGED <<text, parser, stack, result, visited, before, ctx, entry, page>>
    /\ UNCHANGED hostVars

\* an item that is a chapter: Roff::new(ch.name), then parse_markdown
MainSplitChapter ==
    /\ pc = "loop"
    /\ InBinary
    /\ Cfg.split_chapters
    /\ item <= Len(ctx.book)
    /\ IsChapter(Item)
    /\ page' = RoffNew(Item.name)
    /\ text' = Item.content
    /\ pc' = "entry"
    /\ UNCHANGED <<parser, stack, result, visited, before, arena,
                   ctx, entry, item, pages>>
    /\ UNCHANGED hostVars

\* page = page.section(ch.name.as_str(), parsed); pages.push(page)
MainSplitPush ==
    /\ pc = "returned"
    /\ InBinary
    /\ Cfg.split_chapters
    /\ pages' = VecPush(pages, RoffSection(page, Item.name, result))
    /\ page' = RoffSection(page, Item.name, result)
    /\ item' = item + 1
    /\ pc' = "loop"
    /\ UNCHANGED <<walkVarsButPc, ctx, entry>>
    /\ UNCHANGED hostVars

\* an item that is no chapter
MainSplitSkip ==
    /\ pc = "loop"
    /\ InBinary
    /\ Cfg.split_chapters
    /\ item <= Len(ctx.book)
    /\ ~IsChapter(Item)
    /\ item' = item + 1
    /\ UNCHANGED <<walkVars, ctx, entry, page, pages>>
    /\ UNCHANGED hostVars

\* the first loop is over: for (i, page) in pages.iter().enumerate() begins;
\* from here on `item` holds i
MainSplitEnumerate ==
    /\ pc = "loop"
    /\ InBinary
    /\ Cfg.split_chapters
    /\ item > Len(ctx.book)
    /\ item' = 0
    /\ pc' = "enumerate"
    /\ UNCHANGED <<walkVarsButPc, ctx, entry, page, pages>>
    /\ UNCHANGED hostVars

\* the i-th page, output_dir is set: the directory is created when it does
\* not exist, and the page is written to chapter<i>.man in it
MainSplitWrite ==
    /\ pc = "enumerate"
    /\ item < Len(pages)
    /\ Cfg.output_dir.some
    /\ fs' = Write(CreateIfAbsent(fs, Cfg.output_dir.value),
                   Cfg.output_dir.value, ChapterName(item),
                   to_string(pages[item + 1]))
    /\ item' = item + 1
    /\ UNCHANGED <<walkVars, ctx, entry, page, pages, stdout>>

\* the i-th page, output_dir is not set: println!("{}", page)
MainSplitPrint ==
    /\ pc = "enumerate"
    /\ item < Len(pages)
    /\ ~Cfg.output_dir.some
    /\ stdout' = Append(stdout, to_string(pages[item + 1]))
    /\ item' = item + 1
    /\ UNCHANGED <<walkVars, ctx, entry, page, pages, fs>>

\* the second loop is over
MainSplitEnd ==
    /\ pc = "enumerate"
    /\ item = Len(pages)
    /\ pc' = "exit"
    /\ UNCHANGED <<walkVarsButPc, bookVars>>
    /\ UNCHANGED hostVars

----------------------------------------------------------------------------
(* SpecMain: the binary run on a book of at most MaxMainItems items, with  *)
(* any `output.man` table, the output directory existing or not            *)

\* what ctx.book.iter() may yield in SpecMain
MainItems ==
    {[tag |-> "Separator"],
     [tag |-> "Chapter", name |-> S_A, content |-> DocHeading],
     [tag |-> "Chapter", name |-> S_B, content |-> DocCode]}

\* the `output.man` tables
Tables ==
    [output_dir : {None, Some(S_man)},
     split_chapters : {None, Some(FALSE), Some(TRUE)},
     filename : {None, Some(S_out_1)}]

InitMain ==
    /\ \E n \in 0..MaxMainItems :
           ctx \in [title : {None, Some(S_Title)},
                    book : [1..n -> MainItems],
                    output_man : {None} \cup {Some(t) : t \in Tables}]
    /\ entry = "main"
    /\ pc = "call"
    /\ item = 0
    /\ page = NoPage
    /\ pages = <<>>
    /\ text = DocEmpty
    /\ parser = [nodes |-> <<>>, last_md_node |-> "Empty"]
    /\ stack = <<>>
    /\ result = <<>>
    /\ visited = <<>>
    /\ before = [nodes |-> <<>>, last_md_node |-> "Empty"]
    /\ arena = 0
    /\ fs \in [dirs : {{}, {S_man}}, files : {<<>>}]
    /\ stdout = <<>>

NextMain ==
    \/ MainSingleBegin
    \/ MainSingleChapter
    \/ MainSingleSection
    \/ MainSingleSkip
    \/ MainSingleWrite
    \/ MainSinglePrint
    \/ MainSplitBegin
    \/ MainSplitChapter
    \/ MainSplitPush
    \/ MainSplitSkip
    \/ MainSplitEnumerate
    \/ MainSplitWrite
    \/ MainSplitPrint
    \/ MainSplitEnd
    \/ ParseDocument
    \/ VisitLink
    \/ VisitCode
    \/ VisitCodeBlock
    \/ VisitText
    \/ VisitLineBreak
    \/ VisitOther
    \/ IterReturn
    \/ Finalize

SpecMain == InitMain /\ [][NextMain]_vars

----------------------------------------------------------------------------
(* Vocabulary of the properties *)

\* a callback has run since parse_document, and `parser` is as it left it
Visiting == pc \in {"iter", "finalize", "returned"} /\ visited # <<>>

\* the node the latest callback ran on, and its value
Latest == visited[Len(visited)]
LatestValue == text[Latest].value

\* the latest callback ran on a node whose value has one of the tags
LatestIs(tags) == Visiting /\ LatestValue.tag \in tags

\* the latest callback appended exactly the nodes of seq, and touched no
\* earlier node
Appended(seq) == parser.nodes = before.nodes \o seq

\* the number of characters of a string: its bytes that continue no sequence
CharCount(s) == Cardinality({k \in 1..Len(s) : ~(s[k] >= 128 /\ s[k] <= 191)})

\* the position of node n in the order of visits (0: not visited)
Pos(n) ==
    IF \E k \in 1..Len(visited) : visited[k] = n
    THEN CHOOSE k \in 1..Len(visited) : visited[k] = n
    ELSE 0

\* a is a proper ancestor of d in the tree t
RECURSIVE IsAncestor(_, _, _)
IsAncestor(t, a, d) ==
    IF t[d].parent = 0 THEN FALSE
    ELSE t[d].parent = a \/ IsAncestor(t, a, t[d].parent)

\* the walk of iter_nodes is over
WalkOver == pc \in {"finalize", "returned"}

\* the chapter items of the book, in book order
ChapterItems == SelectSeq(ctx.book, LAMBDA it : it.tag = "Chapter")

\* the heading decoration for the text t with an underline of n characters
Decoration(t, n) ==
    <<RoffLinebreak, RoffLinebreak, RoffText(t, "bold"), RoffLinebreak,
      RoffText([k \in 1..n |-> 61], "plain"), RoffLinebreak>>

\* what a Text node with value t emits when 'last node' is last, other than
\* Heading
TextRule(last, t) ==
    CASE last = "Paragraph" -> <<RoffParagraph(<<RoffText(t, "plain")>>)>>
      [] last = "Emphasis" -> <<RoffText(t, "italic")>>
      [] last = "Strong" -> <<RoffText(t, "bold")>>
      [] last = "ListItem" -> <<RoffText(t, "plain"), RoffLinebreak>>
      [] last \in {"Text", "Link", "Image", "Code", "CodeBlock", "SoftBreak",
                   "LineBreak", "List", "Empty"} -> <<RoffText(t, "plain")>>

----------------------------------------------------------------------------
(* C1 *)

\* C1: when mdbook_to_roff returns, the page's title is the book title (the
\* empty string when it is unset) and its sections are the chapter items of
\* the book, one each, named after the chapter, in book order; items that
\* are no chapters add none.
C1_SingleDocument ==
    (pc = "exit" /\ entry = "mdbook_to_roff") =>
        /\ page.title = (IF ctx.title.some THEN ctx.title.value ELSE <<>>)
        /\ Len(page.sections) = Len(ChapterItems)
        /\ \A k \in 1..Len(ChapterItems) :
               page.sections[k].name = ChapterItems[k].name

\* mdbook_to_roff has returned for a book with no title, a separator and
\* then a chapter: one section, named after the chapter
C1_Witness ==
    /\ pc = "exit"
    /\ entry = "mdbook_to_roff"
    /\ ctx.title = None
    /\ Len(ctx.book) = 2
    /\ ctx.book[1].tag = "Separator"
    /\ ctx.book[2].tag = "Chapter"
    /\ page.title = <<>>
    /\ Len(page.sections) = 1
    /\ page.sections[1].name = ctx.book[2].name

----------------------------------------------------------------------------
(* C2 *)

\* C2: when mdbook_to_roff_chapters returns for a book with N chapter items,
\* it returns N pages in book order; the k-th has the k-th chapter's name as
\* its title and exactly one section, named the same, holding the conversion
\* of that chapter's content.
C2_SplitMode ==
    (pc = "exit" /\ entry = "mdbook_to_roff_chapters") =>
        /\ Len(pages) = Len(ChapterItems)
        /\ \A k \in 1..Len(ChapterItems) :
               /\ pages[k].title = ChapterItems[k].name
               /\ pages[k].sections =
                     <<[name |-> ChapterItems[k].name,
                        nodes |-> markdown_to_roff(ChapterItems[k].content)]>>

\* mdbook_to_roff_chapters has returned two pages for a book of a chapter "B"
\* and a chapter "A" with different contents
C2_Witness ==
    /\ pc = "exit"
    /\ entry = "mdbook_to_roff_chapters"
    /\ Len(ctx.book) = 2
    /\ ctx.book[1] = [tag |-> "Chapter", name |-> S_B, content |-> DocCode]
    /\ ctx.book[2] = [tag |-> "Chapter", name |-> S_A, content |-> DocHeading]
    /\ Len(pages) = 2
    /\ pages[1].title = S_B
    /\ pages[2].sections[1].name = S_A
    /\ pages[2].sections[1].nodes # <<>>

----------------------------------------------------------------------------
(* C3 *)

\* C3: a Text node with value t visited while 'last node' is Heading appends
\* line break, line break, bold(t), line break, a run of '=' as long as the
\* number of characters of t plus 2, line break.
C3_HeadingUnderlineChars ==
    (LatestIs({"Text"}) /\ before.last_md_node = "Heading") =>
        LET t == from_utf8_lossy(LatestValue.text)
        IN  Appended(Decoration(t, CharCount(t) + 2))

----------------------------------------------------------------------------
(* C4 *)

\* C4: a Text node with value t visited while 'last node' is not Heading
\* appends what 'last node' alone decides: a paragraph wrapping t after
\* Paragraph, italic(t) after Emphasis, bold(t) after Strong, plain t and a
\* line break after ListItem, plain t after anything else.
C4_TextByLastNode ==
    (LatestIs({"Text"}) /\ before.last_md_node # "Heading") =>
        Appended(TextRule(before.last_md_node, from_utf8_lossy(LatestValue.text)))

\* a Text has been visited right after a ListItem, and the output ends with
\* its plain text and a line break
C4_Witness ==
    /\ LatestIs({"Text"})
    /\ before.last_md_node = "ListItem"
    /\ LatestValue.text = S_Title
    /\ parser.nodes = <<RoffText(S_Title, "plain"), RoffLinebreak>>

----------------------------------------------------------------------------
(* C5 *)

\* C5: a Link or Image node with url u and title T appends exactly one
\* hyperlink node, display T and target u (an empty display for an empty
\* title), whatever 'last node' was, and leaves 'last node' Link or Image.
C5_LinkImage ==
    LatestIs({"Link", "Image"}) =>
        /\ Appended(<<[type |-> "url",
                       name |-> from_utf8_lossy(LatestValue.title),
                       address |-> from_utf8_lossy(LatestValue.url)]>>)
        /\ LatestValue.title = <<>> => parser.nodes[Len(parser.nodes)].name = <<>>
        /\ parser.last_md_node = LatestValue.tag

\* the Link with url "http://x" and title "X", visited after a Heading, has
\* appended the one hyperlink node displaying "X" and pointing to "http://x"
C5_Witness ==
    /\ LatestIs({"Link"})
    /\ before.last_md_node = "Heading"
    /\ LatestValue.url = S_url
    /\ LatestValue.title = S_X
    /\ parser.nodes = <<[type |-> "url", name |-> S_X, address |-> S_url]>>
    /\ parser.last_md_node = "Link"

----------------------------------------------------------------------------
(* C6 *)

\* C6: a CodeBlock node with literal c and info string i appends exactly one
\* node: a grouping node holding one indented paragraph of depth 2 whose
\* content is a line break and an example block holding c, captioned with
\* bold i exactly when i is not empty; whatever 'last node' was, and
\* 'last node' is CodeBlock afterwards.
C6_CodeBlock ==
    LatestIs({"CodeBlock"}) =>
        LET c == from_utf8_lossy(LatestValue.literal)
            i == from_utf8_lossy(LatestValue.info)
        IN  /\ Appended(<<[type |-> "nested", content |->
                 <<[type |-> "indented_paragraph",
                    content |-> <<[type |-> "linebreak"],
                                  [type |-> "example", content |->
                                     <<[type |-> "text", content |-> c,
                                        style |-> "plain"]>>]>>,
                    indentation |-> Some(2),
                    title |-> IF i = <<>> THEN None
                              ELSE Some([type |-> "text", content |-> i,
                                         style |-> "bold"])]>>]>>)
            /\ parser.last_md_node = "CodeBlock"

\* the CodeBlock with info "rust" and literal "fn main() {}", visited after
\* a Paragraph, has appended the one grouped, captioned, indented example
C6_Witness ==
    /\ LatestIs({"CodeBlock"})
    /\ before.last_md_node = "Paragraph"
    /\ LatestValue.info = S_rust
    /\ LatestValue.literal = S_main
    /\ Len(parser.nodes) = 1
    /\ parser.nodes[1].type = "nested"
    /\ parser.nodes[1].content[1].indentation = Some(2)
    /\ parser.nodes[1].content[1].title = Some(RoffText(S_rust, "bold"))
    /\ parser.nodes[1].content[1].content[2] =
          RoffExample(<<RoffText(S_main, "plain")>>)

\* the CodeBlock with an empty info string has appended an example with no
\* caption
C6_WitnessNoCaption ==
    /\ LatestIs({"CodeBlock"})
    /\ LatestValue.info = <<>>
    /\ Len(parser.nodes) = 1
    /\ parser.nodes[1].content[1].title = None

----------------------------------------------------------------------------
(* C7 *)

\* C7: a Code node with literal c appends exactly plain "`", italic(c),
\* plain "`", whatever 'last node' was (after Heading too, with no heading
\* decoration), and 'last node' is Code afterwards.
C7_CodeSpan ==
    LatestIs({"Code"}) =>
        LET c == from_utf8_lossy(LatestValue.literal)
        IN  /\ Appended(<<[type |-> "text", content |-> <<96>>, style |-> "plain"],
                          [type |-> "text", content |-> c, style |-> "italic"],
                          [type |-> "text", content |-> <<96>>, style |-> "plain"]>>)
            /\ parser.last_md_node = "Code"

\* a Code node has been visited right after a Heading: three nodes and no
\* decoration
C7_Witness ==
    /\ LatestIs({"Code"})
    /\ before.last_md_node = "Heading"
    /\ parser.nodes = <<RoffText(S_backtick, "plain"), RoffText(S_x, "italic"),
                        RoffText(S_backtick, "plain")>>
    /\ parser.last_md_node = "Code"

----------------------------------------------------------------------------
(* C8 *)

\* the tags the classification names; every other node kind is Empty
NamedTags == {"Heading", "Paragraph", "CodeBlock", "Code", "Strong", "Emph",
              "Link", "SoftBreak", "Text", "List", "Item", "LineBreak", "Image"}

\* C8: a node of a kind outside the closed set appends nothing and sets
\* 'last node' to Empty; once the walk is over every descendant of such a
\* node has been visited; and a Text below such a node is emitted by the
\* 'last node' in effect at its visit (the decoration after Heading, with the
\* underline of str::len + 2, the rule of the other kinds otherwise).
C8_UnnamedKind ==
    /\ (Visiting /\ LatestValue.tag \notin NamedTags) =>
           /\ Appended(<<>>)
           /\ parser.last_md_node = "Empty"
    /\ WalkOver =>
           \A a, d \in 1..Len(text) :
               (text[a].value.tag \notin NamedTags /\ IsAncestor(text, a, d))
                   => Pos(d) > Pos(a) /\ Pos(a) > 0
    /\ (LatestIs({"Text"})
          /\ \E a \in 1..Len(text) :
                 /\ text[a].value.tag \notin NamedTags
                 /\ IsAncestor(text, a, Latest)) =>
           LET t == from_utf8_lossy(LatestValue.text)
           IN  IF before.last_md_node = "Heading"
               THEN Appended(Decoration(t, Len(t) + 2))
               ELSE Appended(TextRule(before.last_md_node, t))

\* the walk of Document > Table > Text "Title" is over: the Table added
\* nothing, and its Text was visited and emitted plain, as after Empty
C8_Witness ==
    /\ WalkOver
    /\ Len(text) = 3
    /\ text[2] = [value |-> Leaf("Table"), parent |-> 1]
    /\ text[3] = [value |-> [tag |-> "Text", text |-> S_Title], parent |-> 2]
    /\ visited = <<1, 2, 3>>
    /\ before.last_md_node = "Empty"
    /\ parser.nodes = <<RoffText(S_Title, "plain")>>

----------------------------------------------------------------------------
(* C9 *)

\* C9: no node is ever visited twice, and a node is visited only after its
\* parent; once the walk is over every node has been visited exactly once,
\* the children of a node in source order, and every descendant of a child
\* before the next child (depth first), whatever the nodes emitted.
C9_PreOrder ==
    /\ \A j, k \in 1..Len(visited) : visited[j] = visited[k] => j = k
    /\ (pc \in {"iter", "finalize", "returned"}) =>
           \A k \in 1..Len(visited) :
               /\ visited[k] \in 1..Len(text)
               /\ text[visited[k]].parent # 0 =>
                      /\ Pos(text[visited[k]].parent) > 0
                      /\ Pos(text[visited[k]].parent) < k
    /\ WalkOver =>
           /\ Len(visited) = Len(text)
           /\ \A n \in 1..Len(text) : Pos(n) > 0
           /\ \A a, b \in 1..Len(text) :
                  (a < b /\ text[a].parent = text[b].parent) =>
                      /\ Pos(a) < Pos(b)
                      /\ \A d \in 1..Len(text) :
                             IsAncestor(text, a, d) => Pos(d) < Pos(b)

\* the walk of a tree of five nodes is over in which node 4 is a child of
\* node 2 and node 3 a later child of the root, and a parent emitted nothing
C9_Witness ==
    /\ WalkOver
    /\ Len(text) = 5
    /\ text[3].parent = 1
    /\ text[4].parent = 2
    /\ text[5].parent = 4
    /\ text[2].value.tag = "Paragraph"
    /\ visited = <<1, 2, 4, 5, 3>>

----------------------------------------------------------------------------
(* C10 *)

\* the nodes each chapter item of the book was converted to, in book order
Conversions ==
    IF entry = "mdbook_to_roff"
    THEN [k \in 1..Len(page.sections) |-> page.sections[k].nodes]
    ELSE [k \in 1..Len(pages) |-> pages[k].sections[1].nodes]

\* C10: two conversions of the same chapter tree, each by a Parser of its
\* own, yield the same sequence of output nodes.
C10_SameTreeSameOutput ==
    pc = "exit" =>
        /\ Len(Conversions) = Len(ChapterItems)
        /\ \A j, k \in 1..Len(ChapterItems) :
               ChapterItems[j].content = ChapterItems[k].content
                   => Conversions[j] = Conversions[k]

\* a book of two chapters with the same content, other than the empty
\* document, has been converted
C10_Witness ==
    /\ pc = "exit"
    /\ Len(ChapterItems) = 2
    /\ ChapterItems[1].content = DocHeading
    /\ ChapterItems[2].content = DocHeading
    /\ Len(Conversions) = 2
    /\ Conversions[1] # <<>>
    /\ Conversions[1] = Conversions[2]

----------------------------------------------------------------------------
(* C11 *)

\* C11: the conversion of every tree completes: as long as it has not
\* returned a step can be taken, it stops only with every node visited, and
\* it does return its output sequence; a payload that is not UTF-8 is
\* replaced, not rejected.
C11_Completes ==
    /\ [](pc # "returned" => ENABLED Next)
    /\ <>(pc = "returned" /\ Len(visited) = Len(text) /\ result = parser.nodes)

\* the conversion of Document > Paragraph > Text <<255>> has returned, with
\* U+FFFD for the byte that is no UTF-8
C11_Witness ==
    /\ pc = "returned"
    /\ Len(text) = 3
    /\ text[2].value = Leaf("Paragraph")
    /\ text[3].value = [tag |-> "Text", text |-> S_bad]
    /\ result = <<RoffParagraph(<<RoffText(REPLACEMENT, "plain")>>)>>

----------------------------------------------------------------------------
(* C12 *)

\* the keys of the `output.man` table as the book's configuration has them
SetOutputDir ==
    IF ctx.output_man.some THEN ctx.output_man.value.output_dir ELSE None
SetFilename ==
    IF ctx.output_man.some THEN ctx.output_man.value.filename ELSE None
SetSplit ==
    /\ ctx.output_man.some
    /\ ctx.output_man.value.split_chapters = Some(TRUE)

\* main has ended
MainOver == InBinary /\ pc = "exit"

\* C12: in single-document mode, when main has ended: with no output-dir
\* the page was printed and no file written; with an output-dir the
\* directory exists, exactly one file was written, in it, holding the page
\* and named by the configured filename when there is one and book.man
\* otherwise, and nothing was printed.
C12_SingleDocumentOutput ==
    (MainOver /\ ~SetSplit) =>
        IF ~SetOutputDir.some
        THEN /\ stdout = <<to_string(page)>>
             /\ DOMAIN fs.files = {}
        ELSE LET dir == SetOutputDir.value
                 name == IF SetFilename.some THEN SetFilename.value
                         ELSE S_book_man
             IN  /\ dir \in fs.dirs
                 /\ DOMAIN fs.files = {<<dir, name>>}
                 /\ fs.files[<<dir, name>>] = to_string(page)
                 /\ stdout = <<>>

----------------------------------------------------------------------------
(* C13 *)

\* the name chapter<k>.man, for k below ten
ChapterFile(k) == S_chapter \o <<48 + k>> \o S_dot_man

\* C13: in split mode with an output-dir, when main has ended for a book
\* with N chapter items, N files were written; the k-th chapter item,
\* counting from 0 over the chapter items only, is in
\* output-dir/chapter<k>.man; the N names are pairwise distinct.  While the
\* files are being written, those of the pages before the current one are
\* there.
C13_ChapterFiles ==
    (InBinary /\ SetSplit /\ SetOutputDir.some) =>
        LET dir == SetOutputDir.value
            N == Len(ChapterItems)
            written == IF pc = "exit" THEN N
                       ELSE IF pc = "enumerate" THEN item ELSE 0
        IN  /\ pc = "exit" => Len(pages) = N
            /\ DOMAIN fs.files = {<<dir, ChapterFile(k)>> : k \in 0..(written - 1)}
            /\ Cardinality(DOMAIN fs.files) = written
            /\ \A k \in 0..(written - 1) :
                   /\ fs.files[<<dir, ChapterFile(k)>>] = to_string(pages[k + 1])
                   /\ pages[k + 1].title = ChapterItems[k + 1].name
            /\ \A j, k \in 0..(N - 1) :
                   j # k => ChapterFile(j) # ChapterFile(k)

\* main has ended in split mode for the book Separator, chapter "B", chapter
\* "A": chapter0.man holds the page of "B" and chapter1.man the page of "A",
\* in a directory that did not exist
C13_Witness ==
    /\ MainOver
    /\ SetSplit
    /\ SetOutputDir = Some(S_man)
    /\ Len(ctx.book) = 3
    /\ ctx.book[1].tag = "Separator"
    /\ Len(ChapterItems) = 2
    /\ ChapterItems[1].name = S_B
    /\ ChapterItems[2].name = S_A
    /\ S_man \in fs.dirs
    /\ Cardinality(DOMAIN fs.files) = 2
    /\ fs.files[<<S_man, S_chapter \o <<48>> \o S_dot_man>>].rendered.title = S_B
    /\ fs.files[<<S_man, S_chapter \o <<49>> \o S_dot_man>>].rendered.title = S_A

----------------------------------------------------------------------------
(* C14 *)

\* the 'last node' kind the specification gives a node kind
KindOf(tag) ==
    CASE tag = "Emph" -> "Emphasis"
      [] tag = "Item" -> "ListItem"
      [] tag \in NamedTags -> tag
      [] OTHER -> "Empty"

\* the latest visit is of a Text of a run of Text nodes visited right
\* after a Heading
InHeadingRun ==
    /\ LatestIs({"Text"})
    /\ \E h \in 1..(Len(visited) - 1) :
           /\ text[visited[h]].value.tag = "Heading"
           /\ \A j \in (h + 1)..Len(visited) :
                  text[visited[j]].value.tag = "Text"

\* C14: after a Text is visited while 'last node' is Heading, 'last node' is
\* still Heading; so every Text of the run of Text nodes that follows a
\* Heading gets the six-node decoration; and the first node that is no Text
\* visited while 'last node' is Heading overwrites it with its own kind.
C14_HeadingRetained ==
    /\ (LatestIs({"Text"}) /\ before.last_md_node = "Heading") =>
           parser.last_md_node = "Heading"
    /\ InHeadingRun =>
           LET t == from_utf8_lossy(LatestValue.text)
           IN  /\ before.last_md_node = "Heading"
               /\ Appended(Decoration(t, Len(t) + 2))
               /\ parser.last_md_node = "Heading"
    /\ (Visiting /\ ~LatestIs({"Text"}) /\ before.last_md_node = "Heading") =>
           parser.last_md_node = KindOf(LatestValue.tag)

\* Document > [Heading > [Text, Text], Emph] has been converted: two
\* decorations of six nodes, and the Emph that follows the run has replaced
\* Heading as 'last node'
C14_Witness ==
    /\ pc = "returned"
    /\ text = MkTree(<<Leaf("Heading"), [tag |-> "Text", text |-> S_x],
                       [tag |-> "Text", text |-> S_x], Leaf("Emph")>>,
                     <<1, 2, 2, 1>>)
    /\ result = Decoration(S_x, 3) \o Decoration(S_x, 3)
    /\ parser.last_md_node = "Emphasis"

----------------------------------------------------------------------------
(* C15 *)

\* C15: 'last node' is one slot that is overwritten: it is Empty when the
\* walk begins; from the visit of a node on, until the next visit, it is the
\* kind of that node (but for a Text visited while it was Heading), also
\* after iter_nodes has returned from the node, or from its parent: the value
\* it had before is not restored.
C15_LastNodeSlot ==
    /\ (pc = "iter" /\ visited = <<>>) => parser.last_md_node = "Empty"
    /\ (Visiting /\ ~(LatestIs({"Text"}) /\ before.last_md_node = "Heading")) =>
           parser.last_md_node = KindOf(LatestValue.tag)

\* in Document > Paragraph > [Emph > Text, Text], iter_nodes has returned
\* from the Text and from the Emph, and is back in the loop over the
\* Paragraph's children: 'last node' is Text, neither Emphasis nor Paragraph
C15_Witness ==
    /\ pc = "iter"
    /\ text = MkTree(<<Leaf("Paragraph"), Leaf("Emph"),
                       [tag |-> "Text", text |-> S_x],
                       [tag |-> "Text", text |-> S_x]>>,
                     <<1, 2, 3, 2>>)
    /\ visited = <<1, 2, 3, 4>>
    /\ Len(stack) = 2
    /\ stack[2] = [node |-> 2, idx |-> 1]
    /\ parser.last_md_node = "Text"

----------------------------------------------------------------------------
(* C16 *)

\* a text node the converter adds around a payload: the backtick of a code
\* span, the underline of a heading (no payload of the model is either)
IsOrnament(node) ==
    /\ node.type = "text"
    /\ node.content # <<>>
    /\ \/ node.content = S_backtick
       \/ \A k \in 1..Len(node.content) : node.content[k] = 61

\* the payloads the output nodes of seq carry, in order: the content of the
\* text nodes that are no ornament, at any depth of paragraphs, nested
\* nodes, indented paragraphs and examples
RECURSIVE Carried(_)
Carried(seq) ==
    IF seq = <<>> THEN <<>>
    ELSE LET node == Head(seq)
             here == CASE node.type = "text" ->
                              IF IsOrnament(node) THEN <<>>
                              ELSE <<node.content>>
                       [] node.type \in {"paragraph", "nested", "example",
                                         "indented_paragraph"} ->
                              Carried(node.content)
                       [] OTHER -> <<>>
         IN  here \o Carried(Tail(seq))

\* the decoded payload of a Text, Code or CodeBlock value
Payload(value) ==
    IF value.tag = "Text" THEN from_utf8_lossy(value.text)
    ELSE from_utf8_lossy(value.literal)

\* the payloads of the Text, Code and CodeBlock nodes among the first k
\* visited, in the order of the visits
RECURSIVE PayloadsVisited(_)
PayloadsVisited(k) ==
    IF k = 0 THEN <<>>
    ELSE LET value == text[visited[k]].value
         IN  PayloadsVisited(k - 1) \o
                 (IF value.tag \in {"Text", "Code", "CodeBlock"}
                  THEN <<Payload(value)>> ELSE <<>>)

\* C16: a visit only appends: the output before it is a prefix of the
\* output after it.  At every moment the payloads carried by the output are
\* those of the Text, Code and CodeBlock nodes visited so far, each once, in
\* the order of the visits; so is the output that is returned, for all the
\* nodes of the tree.
C16_AppendOnly ==
    /\ Visiting =>
           /\ Len(parser.nodes) >= Len(before.nodes)
           /\ SubSeq(parser.nodes, 1, Len(before.nodes)) = before.nodes
           /\ Carried(parser.nodes) = PayloadsVisited(Len(visited))
    /\ pc = "returned" =>
           /\ Len(visited) = Len(text)
           /\ Carried(result) = PayloadsVisited(Len(text))

\* Document > [CodeBlock, Text <<255>>, Code "x"] has been converted: the
\* output of five nodes carries the block's literal, then U+FFFD, then "x"
C16_Witness ==
    /\ pc = "returned"
    /\ text = MkTree(<<[tag |-> "CodeBlock", literal |-> S_main, info |-> S_rust],
                       [tag |-> "Text", text |-> S_bad],
                       [tag |-> "Code", literal |-> S_x]>>,
                     <<1, 1, 1>>)
    /\ Len(result) = 5
    /\ Carried(result) = <<S_main, REPLACEMENT, S_x>>

----------------------------------------------------------------------------
(* C17 *)

\* the conversion of the tree t on its own, from an empty output and the
\* 'last node' Empty
Alone(t) ==
    finalize(iter_nodes(t, 1, [nodes |-> <<>>, last_md_node |-> "Empty"]))

\* parse_document has just returned for a chapter
ChapterParsed == pc = "iter" /\ visited = <<>>

\* the nodes of the chapters among the first k items of the book
RECURSIVE NodesUpTo(_)
NodesUpTo(k) ==
    IF k = 0 THEN 0
    ELSE NodesUpTo(k - 1) +
             (IF IsChapter(ctx.book[k]) THEN Len(ctx.book[k].content) ELSE 0)

\* every section built so far holds the conversion of its chapter alone
SectionsAlone ==
    /\ pc = "returned" => result = Alone(text)
    /\ (pc = "exit" /\ entry = "mdbook_to_roff") =>
           /\ Len(page.sections) = Len(ChapterItems)
           /\ \A k \in 1..Len(ChapterItems) :
                  page.sections[k].nodes = Alone(ChapterItems[k].content)
    /\ (pc = "exit" /\ entry = "mdbook_to_roff_chapters") =>
           /\ Len(pages) = Len(ChapterItems)
           /\ \A k \in 1..Len(ChapterItems) :
                  pages[k].sections[1].nodes = Alone(ChapterItems[k].content)

\* C17 as stated: every chapter is converted with a fresh state machine and
\* a fresh arena, holding the nodes of that chapter only, and every section
\* is the conversion of its chapter alone.
C17_FreshArena ==
    /\ ChapterParsed =>
           /\ parser = [nodes |-> <<>>, last_md_node |-> "Empty"]
           /\ arena = Len(text)
    /\ SectionsAlone

\* C17, amended: every chapter is converted with a fresh state machine; the
\* arena is the one of the whole call, holding the nodes of every chapter
\* parsed so far; and every section is the conversion of its chapter alone,
\* whatever was converted before.
C17_FreshParserSharedArena ==
    /\ ChapterParsed =>
           /\ parser = [nodes |-> <<>>, last_md_node |-> "Empty"]
           /\ arena = NodesUpTo(item)
    /\ SectionsAlone

\* the second chapter of a book has been parsed after a first one that left
\* output and a 'last node': the Parser is fresh, and the arena holds the
\* nodes of both chapters
C17_Witness ==
    /\ ChapterParsed
    /\ item = 2
    /\ IsChapter(ctx.book[1])
    /\ ctx.book[1].content = DocHeading
    /\ text = DocCode
    /\ parser = [nodes |-> <<>>, last_md_node |-> "Empty"]
    /\ arena = Len(DocHeading) + Len(DocCode)
    /\ arena > Len(text)

----------------------------------------------------------------------------
(* C18 *)

\* the tag of the k-th node visited
TagAt(k) == text[visited[k]].value.tag

\* what the order of the visits makes 'last node' at the latest visit:
\* Empty at the first; Heading after a Heading and after the run of Text
\* nodes that follows one; the kind of the node visited just before otherwise
PriorKind ==
    LET k == Len(visited)
    IN  IF k = 1 THEN "Empty"
        ELSE IF \E h \in 1..(k - 1) :
                    /\ TagAt(h) = "Heading"
                    /\ \A j \in (h + 1)..(k - 1) : TagAt(j) = "Text"
             THEN "Heading"
             ELSE KindOf(TagAt(k - 1))

\* the parent of node n, and whether n is the first child of its parent
ParentOf(n) == text[n].parent
IsFirstChild(n) == ParentOf(n) # 0 /\ Children(text, ParentOf(n))[1] = n

\* node n is an Emph whose children are Text nodes without children, one at
\* least
IsEmphOfText(n) ==
    /\ text[n].value.tag = "Emph"
    /\ Children(text, n) # <<>>
    /\ \A k \in 1..Len(Children(text, n)) :
           LET c == Children(text, n)[k]
           IN  text[c].value.tag = "Text" /\ Children(text, c) = <<>>

\* the latest visit is of a child of a Paragraph that follows, among the
\* Paragraph's children, an Emph of text
FollowsEmphOfText ==
    /\ ParentOf(Latest) # 0
    /\ text[ParentOf(Latest)].value.tag = "Paragraph"
    /\ LET kids == Children(text, ParentOf(Latest))
       IN  \E k \in 2..Len(kids) :
               kids[k] = Latest /\ IsEmphOfText(kids[k - 1])

\* C18: what a Text emits is fixed by its value and by the node visited just
\* before it in pre-order (or the Heading a text run retains), whatever its
\* ancestors: the first Text of a Paragraph in a ListItem is a paragraph
\* node, with no line break; the first Text of a Strong in an Emph is bold
\* and nothing else; a Text that follows an Emph of text in a Paragraph is
\* plain.
C18_TextContextFree ==
    LatestIs({"Text"}) =>
        LET t == from_utf8_lossy(LatestValue.text)
            p == ParentOf(Latest)
        IN  /\ IF PriorKind = "Heading"
               THEN Appended(Decoration(t, Len(t) + 2))
               ELSE Appended(TextRule(PriorKind, t))
            /\ (/\ IsFirstChild(Latest)
                /\ text[p].value.tag = "Paragraph"
                /\ ParentOf(p) # 0
                /\ text[ParentOf(p)].value.tag = "Item") =>
                   Appended(<<RoffParagraph(<<RoffText(t, "plain")>>)>>)
            /\ (/\ IsFirstChild(Latest)
                /\ text[p].value.tag = "Strong"
                /\ ParentOf(p) # 0
                /\ text[ParentOf(p)].value.tag = "Emph") =>
                   Appended(<<RoffText(t, "bold")>>)
            /\ FollowsEmphOfText => Appended(<<RoffText(t, "plain")>>)

\* Document > Paragraph > [Emph > Text, Text] has been converted: the Text
\* of the Emph is italic, the Text after it is plain, not a paragraph node
C18_Witness ==
    /\ pc = "returned"
    /\ text = MkTree(<<Leaf("Paragraph"), Leaf("Emph"),
                       [tag |-> "Text", text |-> S_x],
                       [tag |-> "Text", text |-> S_x]>>,
                     <<1, 2, 3, 2>>)
    /\ result = <<RoffText(S_x, "italic"), RoffText(S_x, "plain")>>

----------------------------------------------------------------------------
(* C19 *)

\* what the latest visit appended
Emitted == SubSeq(parser.nodes, Len(before.nodes) + 1, Len(parser.nodes))

\* seq has the underline of a heading decoration
HasUnderline(seq) ==
    \E k \in 1..Len(seq) :
        /\ seq[k].type = "text"
        /\ seq[k].content # <<>>
        /\ \A j \in 1..Len(seq[k].content) : seq[k].content[j] = 61

\* C19: the visit of a Heading appends nothing; a visit appends the heading
\* decoration exactly when it is the visit of a Text while 'last node' is
\* Heading; so below a Heading whose first child is no Text, and that holds
\* no other Heading, no Text is decorated.
C19_DecorationIffTextAfterHeading ==
    /\ LatestIs({"Heading"}) => Appended(<<>>)
    /\ Visiting =>
           IF LatestIs({"Text"}) /\ before.last_md_node = "Heading"
           THEN LET t == from_utf8_lossy(LatestValue.text)
                IN  Appended(Decoration(t, Len(t) + 2))
           ELSE ~HasUnderline(Emitted)
    /\ Visiting =>
           \A h \in 1..Len(text) :
               (/\ text[h].value.tag = "Heading"
                /\ IsAncestor(text, h, Latest)
                /\ text[Children(text, h)[1]].value.tag # "Text"
                /\ \A g \in 1..Len(text) :
                       IsAncestor(text, h, g) => text[g].value.tag # "Heading")
                   => ~HasUnderline(Emitted)

\* Document > Heading > Code "x" has been converted: the output is the code
\* span and nothing else
C19_Witness ==
    /\ pc = "returned"
    /\ text = MkTree(<<Leaf("Heading"), [tag |-> "Code", literal |-> S_x]>>,
                     <<1, 2>>)
    /\ result = <<RoffText(S_backtick, "plain"), RoffText(S_x, "italic"),
                  RoffText(S_backtick, "plain")>>
    /\ ~HasUnderline(result)

----------------------------------------------------------------------------
(* C20 *)

\* C20: the binary's parse_markdown goes through the Parsers of the
\* library's markdown_to_roff on the same tree, one after the other: the
\* same at creation, the same 'last node' and output after every visit, the
\* same nodes returned; and when main has built its document, or its
\* documents, they are the ones mdbook_to_roff, or mdbook_to_roff_chapters,
\* returns for the book: titles, section names, order and nodes.
C20_BinaryAsLibrary ==
    InBinary =>
        /\ (pc = "iter" /\ visited = <<>>) =>
               parser = markdown_to_roff_trace(text)[1]
        /\ Visiting =>
               LET trace == markdown_to_roff_trace(text)
               IN  /\ Len(visited) < Len(trace)
                   /\ parser = trace[Len(visited) + 1]
        /\ pc = "returned" => result = markdown_to_roff(text)
        /\ (pc = "exit" /\ ~Cfg.split_chapters) => page = mdbook_to_roff(ctx)
        /\ (pc \in {"enumerate", "exit"} /\ Cfg.split_chapters) =>
               pages = mdbook_to_roff_chapters(ctx)

\* main has ended in single-document mode for the titled book of the
\* chapters "A" and "B": its page has the two sections the library builds
C20_Witness ==
    /\ MainOver
    /\ ~Cfg.split_chapters
    /\ ctx.title = Some(S_Title)
    /\ Len(ctx.book) = 2
    /\ ctx.book[1] = [tag |-> "Chapter", name |-> S_A, content |-> DocHeading]
    /\ ctx.book[2] = [tag |-> "Chapter", name |-> S_B, content |-> DocCode]
    /\ page.title = S_Title
    /\ Len(page.sections) = 2
    /\ page.sections[1].nodes = markdown_to_roff(DocHeading)
    /\ page.sections[2].nodes # <<>>

====
